---- MODULE Spec2Model ----
(***************************************************************************)
(* Model of functions/_middleware.js: the Cloudflare Pages middleware that *)
(* answers /api/repos-info (bulk) and /api/repo-info (single) by calling   *)
(* the GitHub API through getRepoInfo.                                     *)
(*                                                                         *)
(* JavaScript strings are modelled as sequences of one-character strings,  *)
(* so that includes / replace / split are computed character by character. *)
(***************************************************************************)
EXTENDS Integers, Sequences, FiniteSets, TLC

VARIABLES request, pc, calls, response

vars == <<request, pc, calls, response>>

----------------------------------------------------------------------------
(* Bounds of the model *)

\* longest `repos` list of a bulk request
MaxRepos == 2

----------------------------------------------------------------------------
(* Module-level constants of the source *)

CACHE_TIME == 60 * 60
CACHE_CONTROL == "public, max-age=" \o ToString(CACHE_TIME)
GITHUB_API_BASE == "https://api.github.com"
USER_AGENT == "YackSuite-Tool-Status-Checker"

\* JavaScript's undefined and null
Undefined == "undefined"
Null == "null"

----------------------------------------------------------------------------
(* String primitives used by getRepoInfo *)

SLASH == <<"/">>
DOTGIT == <<".", "g", "i", "t">>
TREE == <<"/", "t", "r", "e", "e", "/">>
GITHUB == <<"g", "i", "t", "h", "u", "b", ".", "c", "o", "m", "/">>
HTTP == <<"h", "t", "t", "p", ":", "/", "/">>
HTTPS == <<"h", "t", "t", "p", "s", ":", "/", "/">>

\* pat occurs in s starting at index i
MatchAt(s, pat, i) ==
    /\ i >= 1
    /\ i + Len(pat) - 1 <= Len(s)
    /\ SubSeq(s, i, i + Len(pat) - 1) = pat

\* String.prototype.includes
includes(s, pat) == \E i \in 1..Len(s) : MatchAt(s, pat, i)

\* String.prototype.indexOf, for a pattern that occurs
indexOf(s, pat) ==
    CHOOSE i \in 1..Len(s) :
        /\ MatchAt(s, pat, i)
        /\ \A j \in 1..(i - 1) : ~MatchAt(s, pat, j)

\* String.prototype.endsWith, the meaning of a regular expression /pat$/
endsWith(s, pat) == MatchAt(s, pat, Len(s) - Len(pat) + 1)

\* s with the n characters from index i removed
Cut(s, i, n) == SubSeq(s, 1, i - 1) \o SubSeq(s, i + n, Len(s))

\* the length of the match of /https?:\/\/github\.com\// at index i, 0 if none
UrlMatchLen(s, i) ==
    IF MatchAt(s, HTTPS \o GITHUB, i) THEN Len(HTTPS \o GITHUB)
    ELSE IF MatchAt(s, HTTP \o GITHUB, i) THEN Len(HTTP \o GITHUB)
    ELSE 0

\* repoPath.replace(/https?:\/\/github\.com\//, ''): the leftmost match only
stripGithubUrl(s) ==
    IF \E i \in 1..Len(s) : UrlMatchLen(s, i) > 0
    THEN LET i == CHOOSE k \in 1..Len(s) :
                      /\ UrlMatchLen(s, k) > 0
                      /\ \A j \in 1..(k - 1) : UrlMatchLen(s, j) = 0
         IN Cut(s, i, UrlMatchLen(s, i))
    ELSE s

\* .replace(/\.git$/, '')
stripDotGit(s) ==
    IF endsWith(s, DOTGIT) THEN SubSeq(s, 1, Len(s) - Len(DOTGIT)) ELSE s

\* .replace(/\/$/, '')
stripTrailingSlash(s) ==
    IF endsWith(s, SLASH) THEN SubSeq(s, 1, Len(s) - 1) ELSE s

\* a split that keeps the part after the first '/tree/' instead of the part
\* before it
splitTree_after(s) ==
    IF includes(s, TREE)
    THEN SubSeq(s, indexOf(s, TREE) + Len(TREE), Len(s))
    ELSE s

\* repoPath.split('/tree/')[0]
splitTree(s) ==
    IF includes(s, TREE) THEN SubSeq(s, 1, indexOf(s, TREE) - 1) ELSE s

\* lines 22-33 of getRepoInfo: the path used in both upstream requests
repoPath(repoFullName) ==
    LET p1 == IF includes(repoFullName, GITHUB)
              THEN stripGithubUrl(repoFullName)
              ELSE repoFullName
        p2 == stripTrailingSlash(stripDotGit(p1))
    IN IF includes(p2, TREE) THEN splitTree(p2) ELSE p2

----------------------------------------------------------------------------
(* JSON values that reach getRepoInfo as repoFullName *)

\* a JavaScript string
JStr(s) == [type |-> "string", text |-> s, printable |-> TRUE]
\* the number 7; `${7}` is "7"
JNum == [type |-> "number", text |-> <<"7">>, printable |-> TRUE]
\* the object {"toString": 1}: converting it to a string throws a TypeError
JOpaque == [type |-> "object", text |-> <<>>, printable |-> FALSE]

\* the values that are falsy in JavaScript, among those the model uses
Falsy(v) == v \in {Undefined, Null, ""}

\* a || b
OrElse(a, b) == IF Falsy(a) THEN b ELSE a

\* Response.ok
ok(status) == status \in 200..299

----------------------------------------------------------------------------
(* Upstream behaviours *)

\* what fetch() settles to: a rejection (status 0) or a response status
Statuses == {200, 404}
FetchOutcomes == [rejects : {TRUE}, status : {0}]
                     \cup [rejects : {FALSE}, status : Statuses]

Owner == [login |-> "o", avatar_url |-> "o.png", html_url |-> "gh/o"]

\* the metadata object; owner is <<>> when the field is missing
RepoData(branch, owner) ==
    [name |-> "n", full_name |-> "o/n", description |-> Null,
     html_url |-> "gh/o/n", stargazers_count |-> 3, forks_count |-> 1,
     updated_at |-> "t_meta", default_branch |-> branch, owner |-> owner]

NoData == RepoData(Undefined, <<>>)

\* what repoResponse.json() settles to
RepoBodies ==
    {[parse |-> "error", data |-> NoData], [parse |-> "null", data |-> NoData]}
        \cup {[parse |-> "value", data |-> d] :
                  d \in {RepoData("main", <<Owner>>),
                         RepoData(Undefined, <<Owner>>),
                         RepoData("main", <<>>)}}

\* one element of the commit list, with commit.committer.date, commit.message
\* and html_url
Commit(date, message, url) ==
    [date |-> date, message |-> message, html_url |-> url]

\* what commitsResponse.json() settles to
CommitBodies ==
    {[parse |-> "error", list |-> <<>>], [parse |-> "null", list |-> <<>>],
     [parse |-> "value", list |-> <<>>],
     [parse |-> "value", list |-> <<Commit("t_commit", "msg", "gh/c1")>>],
     [parse |-> "value", list |-> <<Commit(Undefined, "", "gh/c1")>>]}

----------------------------------------------------------------------------
(* getRepoInfo *)

NoResult == [pending |-> TRUE]

\* a fetch that has not settled yet
NoOutcome == [rejects |-> FALSE, status |-> 0]

\* `commits` before commitsResponse.json() has settled
NoCommits == [parse |-> "pending", list |-> <<>>]

\* the headers of both upstream requests (lines 37-41 and 52-56); the value
\* of Authorization is `Bearer ${githubToken}`, kept as its two parts
headers(githubToken) ==
    [UserAgent |-> USER_AGENT, Accept |-> "application/vnd.github.v3+json",
     Authorization |-> [scheme |-> "Bearer", credential |-> githubToken]]

\* the catch block, lines 81-88: console.error formats repoFullName into a
\* template literal before the degraded record is returned
catch(call, message) ==
    IF call.ref.printable
    THEN [call EXCEPT !.phase = "resolved",
                      !.result = [name |-> call.ref, error |-> message,
                                  last_updated |-> Null]]
    ELSE [call EXCEPT !.phase = "rejected",
                      !.result = [thrown |->
                                     "Cannot convert object to primitive value"]]

\* the call of getRepoInfo up to its first await (lines 19-42)
getRepoInfo(repoFullName, githubToken) ==
    LET call == [ref |-> repoFullName, token |-> githubToken,
                 phase |-> "start", path |-> <<>>, reqs |-> <<>>,
                 repoResponse |-> NoOutcome, repoData |-> NoData,
                 commitsResponse |-> NoOutcome, commits |-> NoCommits,
                 result |-> NoResult]
    IN IF repoFullName.type # "string"
       THEN catch(call, "repoPath.includes is not a function")
       ELSE LET p == repoPath(repoFullName.text)
            IN [call EXCEPT !.phase = "repo_pending",
                            !.path = p,
                            !.reqs = <<[url |-> "repo", path |-> p,
                                        sha |-> "",
                                        headers |-> headers(githubToken)]>>]

\* a metadata step that does not look at repoResponse.ok
afterRepoResponse_ignoresStatus(call, out) ==
    IF out.rejects THEN catch(call, "fetch failed")
    ELSE [call EXCEPT !.phase = "repo_json", !.repoResponse = out]

\* lines 36-46: the metadata fetch settles
afterRepoResponse(call, out) ==
    IF out.rejects THEN catch(call, "fetch failed")
    ELSE IF ~ok(out.status)
    THEN catch([call EXCEPT !.repoResponse = out],
               "GitHub API error: " \o ToString(out.status))
    ELSE [call EXCEPT !.phase = "repo_json", !.repoResponse = out]

\* lines 48-57: the metadata body is parsed and the commits request is issued
afterRepoJson(call, body) ==
    IF body.parse = "error" THEN catch(call, "Unexpected token in JSON")
    ELSE IF body.parse = "null"
    THEN catch(call, "Cannot read properties of null")
    ELSE [call EXCEPT !.phase = "commits_pending",
                      !.repoData = body.data,
                      !.reqs = @ \o <<[url |-> "commits", path |-> call.path,
                                       sha |-> body.data.default_branch,
                                       headers |-> headers(call.token)]>>]

\* lines 59-61: the commits fetch settles
afterCommitsResponse(call, out) ==
    IF out.rejects THEN catch(call, "fetch failed")
    ELSE IF ~ok(out.status)
    THEN catch([call EXCEPT !.commitsResponse = out],
               "GitHub API error fetching commits: " \o ToString(out.status))
    ELSE [call EXCEPT !.phase = "commits_json", !.commitsResponse = out]

\* commits[0]?.<field>, Undefined when there is no first element
first(commits, field) ==
    IF Len(commits) = 0 THEN Undefined ELSE commits[1][field]

\* a record whose last_updated prefers the metadata's updated_at
repoInfo_updatedAtFirst(repoData, commits) ==
    [name |-> repoData.name,
     full_name |-> repoData.full_name,
     description |-> repoData.description,
     url |-> repoData.html_url,
     stars |-> repoData.stargazers_count,
     forks |-> repoData.forks_count,
     last_updated |-> OrElse(repoData.updated_at, first(commits, "date")),
     last_commit_message |-> OrElse(first(commits, "message"), ""),
     last_commit_url |-> OrElse(first(commits, "html_url"), ""),
     owner |-> [login |-> repoData.owner[1].login,
                avatar_url |-> repoData.owner[1].avatar_url,
                url |-> repoData.owner[1].html_url]]

\* lines 65-80: the record returned on success
repoInfo(repoData, commits) ==
    [name |-> repoData.name,
     full_name |-> repoData.full_name,
     description |-> repoData.description,
     url |-> repoData.html_url,
     stars |-> repoData.stargazers_count,
     forks |-> repoData.forks_count,
     last_updated |-> OrElse(first(commits, "date"), repoData.updated_at),
     last_commit_message |-> OrElse(first(commits, "message"), ""),
     last_commit_url |-> OrElse(first(commits, "html_url"), ""),
     owner |-> [login |-> repoData.owner[1].login,
                avatar_url |-> repoData.owner[1].avatar_url,
                url |-> repoData.owner[1].html_url]]

\* lines 63-80: the commits body is parsed and the record is assembled
afterCommitsJson(call, body) ==
    IF body.parse = "error" THEN catch(call, "Unexpected token in JSON")
    ELSE IF body.parse = "null"
    THEN catch([call EXCEPT !.commits = body], "Cannot read properties of null")
    ELSE IF call.repoData.owner = <<>>
    THEN catch([call EXCEPT !.commits = body],
               "Cannot read properties of undefined")
    ELSE [call EXCEPT !.phase = "resolved",
                      !.commits = body,
                      !.result = repoInfo(call.repoData, body.list)]

Settled(call) == call.phase \in {"resolved", "rejected"}

----------------------------------------------------------------------------
(* Requests *)

BULK == "/api/repos-info"
SINGLE == "/api/repo-info"
STATIC == "/static/logo.png"

\* the credential env.GITHUB_TOKEN, Undefined when the binding is not set
Tokens == {"ghp_secret", Undefined}

\* "o/n" and "https://github.com/o/n.git"
Plain == <<"o", "/", "n">>
GitUrl == HTTPS \o GITHUB \o Plain \o DOTGIT

\* the elements a `repos` list is made of
BulkRefs == {JStr(Plain), JStr(GitUrl), JNum, JOpaque}

\* the sequences over S of length at most n
RECURSIVE SeqUpTo(_, _)
SeqUpTo(S, n) ==
    IF n = 0 THEN {<<>>}
    ELSE LET shorter == SeqUpTo(S, n - 1)
         IN shorter \cup {Append(q, x) : q \in shorter, x \in S}

\* a request body: text that is not JSON, the JSON value null, a JSON number,
\* or an object whose `repos` is missing, a string, null or a list
Body(json, repos, list) == [json |-> json, repos |-> repos, list |-> list]

NoBody == Body("malformed", "missing", <<>>)

Bodies ==
    {NoBody, Body("null", "missing", <<>>), Body("number", "missing", <<>>),
     Body("object", "missing", <<>>), Body("object", "string", <<>>),
     Body("object", "null", <<>>)}
        \cup {Body("object", "list", l) : l \in SeqUpTo(BulkRefs, MaxRepos)}

\* the `repo` query parameter: <<>> when absent, else <<its text>>
Req(path, method, body, repo, token) ==
    [path |-> path, method |-> method, body |-> body, repo |-> repo,
     GITHUB_TOKEN |-> token]

Requests ==
    {Req(BULK, m, b, <<>>, t) : m \in {"GET", "POST"}, b \in Bodies, t \in Tokens}
        \cup {Req(SINGLE, "GET", NoBody, q, t) :
                  q \in {<<>>, <<<<>>>>, <<Plain>>, <<GitUrl>>}, t \in Tokens}
        \cup {Req(STATIC, "GET", NoBody, <<>>, t) : t \in Tokens}

----------------------------------------------------------------------------
(* onRequest *)

NoResponse == [status |-> 0, headers |-> {}, body |-> [pending |-> TRUE]]

JSON_TYPE == <<"Content-Type", "application/json">>

\* an error response, lines 103-109, 117-122, 142-147, 157-162 and 174-179
errorResponse(status, message, extra) ==
    [status |-> status, headers |-> {JSON_TYPE} \cup extra,
     body |-> [error |-> message]]

\* a success response, lines 135-140 and 167-172; the status defaults to 200
jsonResponse(body) ==
    [status |-> 200,
     headers |-> {JSON_TYPE, <<"Cache-Control", CACHE_CONTROL>>},
     body |-> body]

\* a map keyed by the canonical path of each reference
RECURSIVE repoInfoMap_byPath(_, _, _)
repoInfoMap_byPath(repos, results, n) ==
    IF n = 0 THEN <<>>
    ELSE (repoPath(repos[n].text) :> results[n])
             @@ repoInfoMap_byPath(repos, results, n - 1)

\* lines 130-133: repos.forEach writes repoInfoMap[repo], later writes win
RECURSIVE repoInfoMap(_, _, _)
repoInfoMap(repos, results, n) ==
    IF n = 0 THEN <<>>
    ELSE (repos[n].text :> results[n]) @@ repoInfoMap(repos, results, n - 1)

\* a rejected promise is delivered to its awaiter before any network event
MicrotaskPending ==
    /\ pc = "join"
    /\ \E i \in 1..Len(calls) : calls[i].phase = "rejected"

\* lines 100-113: the bulk route up to `await request.json()`
ReceiveBulk ==
    /\ pc = "start"
    /\ request.path = BULK
    /\ IF request.method # "POST"
       THEN /\ response' = errorResponse(405, "Method not allowed. Use POST.",
                                         {<<"Allow", "POST">>})
            /\ pc' = "done"
       ELSE /\ pc' = "body"
            /\ UNCHANGED response
    /\ UNCHANGED <<request, calls>>

\* lines 113-127 and 141-148: the body is parsed, checked, and every
\* getRepoInfo is called before Promise.all is awaited
BodyParsed ==
    /\ pc = "body"
    /\ LET body == request.body
       IN IF body.json = "malformed"
          THEN /\ response' = errorResponse(500, "Unexpected token in JSON", {})
               /\ pc' = "done"
               /\ UNCHANGED calls
          ELSE IF body.json = "null"
          THEN /\ response' = errorResponse(500,
                                  "Cannot destructure property of null", {})
               /\ pc' = "done"
               /\ UNCHANGED calls
          ELSE IF body.repos # "list"
          THEN /\ response' = errorResponse(400,
                        "Invalid request. Provide an array of repo URLs.", {})
               /\ pc' = "done"
               /\ UNCHANGED calls
          ELSE /\ calls' = [i \in 1..Len(body.list) |->
                               getRepoInfo(body.list[i], request.GITHUB_TOKEN)]
               /\ pc' = "join"
               /\ UNCHANGED response
    /\ UNCHANGED request

\* lines 127-148: Promise.all settles, rejected by the first rejection or
\* fulfilled when every promise is
Join ==
    /\ pc = "join"
    /\ IF \E i \in 1..Len(calls) : calls[i].phase = "rejected"
       THEN LET i == CHOOSE k \in 1..Len(calls) : calls[k].phase = "rejected"
            IN response' = errorResponse(500, calls[i].result.thrown, {})
       ELSE /\ \A i \in 1..Len(calls) : calls[i].phase = "resolved"
            /\ response' = jsonResponse(
                   repoInfoMap(request.body.list,
                               [i \in 1..Len(calls) |-> calls[i].result],
                               Len(calls)))
    /\ pc' = "done"
    /\ UNCHANGED <<request, calls>>

\* lines 152-165: the single route up to `await getRepoInfo(repoUrl)`
ReceiveSingle ==
    /\ pc = "start"
    /\ request.path = SINGLE
    /\ IF request.repo = <<>> \/ request.repo = <<<<>>>>
       THEN /\ response' = errorResponse(400, "Missing repo parameter", {})
            /\ pc' = "done"
            /\ UNCHANGED calls
       ELSE /\ calls' = <<getRepoInfo(JStr(request.repo[1]), Undefined)>>
            /\ pc' = "single"
            /\ UNCHANGED response
    /\ UNCHANGED request

\* lines 165-172: the awaited getRepoInfo has resolved
SingleDone ==
    /\ pc = "single"
    /\ calls[1].phase = "resolved"
    /\ response' = jsonResponse(calls[1].result)
    /\ pc' = "done"
    /\ UNCHANGED <<request, calls>>

\* line 184: every other path goes to next()
PassThrough ==
    /\ pc = "start"
    /\ request.path \notin {BULK, SINGLE}
    /\ pc' = "next"
    /\ UNCHANGED <<request, calls, response>>

----------------------------------------------------------------------------
(* The upstream answers *)

RepoResponse ==
    \E i \in 1..Len(calls), out \in FetchOutcomes :
        /\ ~MicrotaskPending
        /\ calls[i].phase = "repo_pending"
        /\ calls' = [calls EXCEPT ![i] = afterRepoResponse(@, out)]
        /\ UNCHANGED <<request, pc, response>>

RepoJson ==
    \E i \in 1..Len(calls), body \in RepoBodies :
        /\ ~MicrotaskPending
        /\ calls[i].phase = "repo_json"
        /\ calls' = [calls EXCEPT ![i] = afterRepoJson(@, body)]
        /\ UNCHANGED <<request, pc, response>>

CommitsResponse ==
    \E i \in 1..Len(calls), out \in FetchOutcomes :
        /\ ~MicrotaskPending
        /\ calls[i].phase = "commits_pending"
        /\ calls' = [calls EXCEPT ![i] = afterCommitsResponse(@, out)]
        /\ UNCHANGED <<request, pc, response>>

CommitsJson ==
    \E i \in 1..Len(calls), body \in CommitBodies :
        /\ ~MicrotaskPending
        /\ calls[i].phase = "commits_json"
        /\ calls' = [calls EXCEPT ![i] = afterCommitsJson(@, body)]
        /\ UNCHANGED <<request, pc, response>>

----------------------------------------------------------------------------
(* The handling of one request *)

Init ==
    /\ request \in Requests
    /\ pc = "start"
    /\ calls = <<>>
    /\ response = NoResponse

Next ==
    \/ ReceiveBulk
    \/ BodyParsed
    \/ Join
    \/ ReceiveSingle
    \/ SingleDone
    \/ PassThrough
    \/ RepoResponse
    \/ RepoJson
    \/ CommitsResponse
    \/ CommitsJson

Spec == Init /\ [][Next]_vars

----------------------------------------------------------------------------
(* The single route over every spelling of a repository reference *)

Owners == {<<"o">>, <<"t", "r", "e", "e">>}
Names == {<<"n">>, <<"g", "i", "t">>}
Branches == {<<"b">>, <<"v", "/", "1">>}

\* the variants that may follow owner/name: .git, then /tree/<branch>, then /
Variants ==
    {g \o t \o e : g \in {<<>>, DOTGIT},
                   t \in {<<>>} \cup {TREE \o b : b \in Branches},
                   e \in {<<>>, SLASH}}

FullName(o, n) == o \o SLASH \o n

\* github.com URLs with either scheme and any variants
UrlRefs ==
    {sc \o GITHUB \o FullName(o, n) \o v :
         sc \in {HTTP, HTTPS}, o \in Owners, n \in Names, v \in Variants}

BareRefs == {FullName(o, n) : o \in Owners, n \in Names}

NormInit ==
    /\ request \in {Req(SINGLE, "GET", NoBody, <<r>>, Undefined) :
                        r \in UrlRefs \cup BareRefs}
    /\ pc = "start"
    /\ calls = <<>>
    /\ response = NoResponse

NormNext ==
    \/ ReceiveSingle
    \/ SingleDone
    \/ RepoResponse
    \/ RepoJson
    \/ CommitsResponse
    \/ CommitsJson

NormSpec == NormInit /\ [][NormNext]_vars

----------------------------------------------------------------------------
(* Properties *)

Calls == {calls[i] : i \in 1..Len(calls)}

InfoFields ==
    {"name", "full_name", "description", "url", "stars", "forks",
     "last_updated", "last_commit_message", "last_commit_url", "owner"}

IsInfo(r) == DOMAIN r = InfoFields

IsDegraded(r, ref) ==
    /\ DOMAIN r = {"name", "error", "last_updated"}
    /\ r.name = ref
    /\ r.last_updated = Null

Outstanding(c) ==
    c.phase \in {"repo_pending", "repo_json", "commits_pending", "commits_json"}

Responded == response.status # 0

BulkList ==
    /\ request.path = BULK
    /\ request.method = "POST"
    /\ request.body.json = "object"
    /\ request.body.repos = "list"

\* C1: every getRepoInfo call that has settled has resolved, never rejected,
\* to a full record or to the degraded record {name: <the reference as
\* given>, error: <message>, last_updated: null}, whatever the reference
\* (strings, numbers, objects) and whatever the upstream did.
C1_NeverRejects ==
    \A c \in Calls :
        Settled(c) =>
            /\ c.phase = "resolved"
            /\ IsInfo(c.result) \/ IsDegraded(c.result, c.ref)

\* C2: a POST to the bulk route whose body has `repos` as a list is answered
\* with status 200 and a mapping that has an entry for every element of
\* `repos`, whichever lookups failed.
C2_BatchAlways200 ==
    (BulkList /\ Responded) =>
        /\ response.status = 200
        /\ \A i \in 1..Len(request.body.list) :
               request.body.list[i].text \in DOMAIN response.body

AllStrings(list) == \A i \in 1..Len(list) : list[i].type = "string"

C4_ShapeFailures ==
    /\ (request.path = BULK /\ request.method # "POST" /\ pc # "start") =>
           /\ response.status = 405
           /\ <<"Allow", "POST">> \in response.headers
           /\ calls = <<>>
    /\ (/\ request.path = BULK
        /\ request.method = "POST"
        /\ request.body.json # "malformed"
        /\ request.body.repos # "list"
        /\ pc \notin {"start", "body"}) =>
           /\ response.status = 400
           /\ calls = <<>>
    /\ (request.path = SINGLE /\ request.repo = <<>> /\ pc # "start") =>
           /\ response.status = 400
           /\ calls = <<>>

\* the four URL forms of owner/name, and owner/name itself
Forms(o, n) ==
    LET url == HTTPS \o GITHUB \o FullName(o, n)
    IN {url, url \o DOTGIT, url \o SLASH, FullName(o, n)}
           \cup {url \o TREE \o b : b \in Branches}

C6_BearerOnlyWhenPresent ==
    \A c \in Calls :
        \A k \in 1..Len(c.reqs) :
            IF c.token # Undefined
            THEN c.reqs[k].headers.Authorization
                     = [scheme |-> "Bearer", credential |-> c.token]
            ELSE c.reqs[k].headers.Authorization.scheme # "Bearer"

\* the number of "/" in p
Slashes(p) == Cardinality({i \in 1..Len(p) : p[i] = "/"})

Canonical(p) ==
    /\ ~includes(p, <<":", "/", "/">>)
    /\ ~endsWith(p, SLASH)
    /\ ~endsWith(p, DOTGIT)
    /\ Slashes(p) = 1

\* C7: for owner/name and for every github.com URL with either scheme and
\* any combination of .git, /tree/<branch> and a trailing slash, the path of
\* every upstream request has no scheme, no trailing slash, no .git suffix
\* and nothing beyond owner/name.
C7_CanonicalPath ==
    \A c \in Calls :
        c.ref.text \in UrlRefs \cup BareRefs =>
            \A k \in 1..Len(c.reqs) : Canonical(c.reqs[k].path)

\* the metadata fetch of c answered with a status that is not a success
RepoRefused(c) == ~c.repoResponse.rejects /\ c.repoResponse.status \in Statuses
                      /\ ~ok(c.repoResponse.status)

CommitsRefused(c) ==
    /\ ~c.commitsResponse.rejects
    /\ c.commitsResponse.status \in Statuses
    /\ ~ok(c.commitsResponse.status)

\* C8: a call issues the metadata request first and the commits request only
\* once the metadata answer was a success and was parsed; a metadata status
\* S that is not a success gives {name: <input>, error: "GitHub API error:
\* S", last_updated: null} and no commits request; a commits status S that
\* is not a success gives "GitHub API error fetching commits: S"; at most
\* two requests are issued.
C8_TwoRequestsInOrder ==
    \A c \in Calls :
        /\ Len(c.reqs) <= 2
        /\ Len(c.reqs) >= 1 => c.reqs[1].url = "repo"
        /\ Len(c.reqs) = 2 =>
               /\ c.reqs[2].url = "commits"
               /\ ok(c.repoResponse.status)
               /\ c.repoData # NoData
               /\ c.reqs[2].sha = c.repoData.default_branch
               /\ c.reqs[2].path = c.reqs[1].path
        /\ RepoRefused(c) =>
               /\ c.phase = "resolved"
               /\ Len(c.reqs) = 1
               /\ c.result
                      = [name |-> c.ref,
                         error |-> "GitHub API error: "
                                       \o ToString(c.repoResponse.status),
                         last_updated |-> Null]
        /\ CommitsRefused(c) =>
               /\ c.phase = "resolved"
               /\ c.result
                      = [name |-> c.ref,
                         error |-> "GitHub API error fetching commits: "
                                       \o ToString(c.commitsResponse.status),
                         last_updated |-> Null]

\* a call whose metadata request was answered 404 and that stopped there
C8_Witness ==
    \E c \in Calls :
        /\ c.repoResponse.status = 404
        /\ Len(c.reqs) = 1
        /\ c.result.error = "GitHub API error: 404"

\* both upstream calls of c succeeded and their bodies were well formed
BothSucceeded(c) ==
    /\ c.phase = "resolved"
    /\ c.commits.parse = "value"
    /\ c.repoData.owner # <<>>

\* C9: when both upstream calls succeed, last_updated is the committer date
\* of the first commit when there is one, and not the metadata's updated_at;
\* with an empty commit list last_updated is the metadata's updated_at and
\* last_commit_message and last_commit_url are "".
C9_LastUpdated ==
    \A c \in Calls :
        BothSucceeded(c) =>
            /\ (Len(c.commits.list) > 0 /\ ~Falsy(c.commits.list[1].date)) =>
                   /\ c.result.last_updated = c.commits.list[1].date
                   /\ c.result.last_updated # c.repoData.updated_at
            /\ Len(c.commits.list) = 0 =>
                   /\ c.result.last_updated = c.repoData.updated_at
                   /\ c.result.last_commit_message = ""
                   /\ c.result.last_commit_url = ""

\* a call that resolved with the committer date of its first commit
C9_Witness ==
    \E c \in Calls :
        /\ BothSucceeded(c)
        /\ Len(c.commits.list) = 1
        /\ c.result.last_updated = "t_commit"

\* C10: the bulk response is produced only after every getRepoInfo call has
\* completed; it is never sent while an upstream call is outstanding.
C10_FullJoin ==
    (BulkList /\ Responded) => \A c \in Calls : ~Outstanding(c)

====
